---- MODULE Spec2Model ----
(***************************************************************************)
(* Model of main.py and api_server.py: PhonebookRepository (a JSON file    *)
(* read in full and rewritten in full by every operation), the             *)
(* SystemController (one platform command per action), the                 *)
(* MobileControlTool operations that wrap both into result envelopes, and  *)
(* the three front ends that dispatch an action to them (the HTTP route    *)
(* /api/mobile-control, main() of the command line, _invoke of the         *)
(* plugin).                                                                *)
(*                                                                         *)
(* JSON values are tagged tuples: Str(s) is a JSON string, Obj(ph, al) is  *)
(* a JSON object with the keys "phone" and "alias" (Absent marks a key the *)
(* object does not have).  The backing file is a record [kind, entries]:   *)
(* entries is the ordered list of <<name, value>> pairs of a JSON object   *)
(* (Python dicts and json.load keep the order of the text).                *)
(*                                                                         *)
(* Specifications: Spec, SpecHist, SpecSeq and SpecFresh observe calls of  *)
(* the phonebook operations one after the other, SpecFrame the same calls  *)
(* on stores of up to three contacts; SpecFront observes requests through  *)
(* the front ends, SpecPlugin calls of _invoke on every kind of file;      *)
(* SpecConc observes two adds handled at the same time.                    *)
(***************************************************************************)
EXTENDS Integers, Sequences, FiniteSets, TLC

VARIABLES file, last, prev, system, reqs

vars == <<file, last, prev, system, reqs>>

(***************************************************************************)
(* Bounds and input domains                                                *)
(***************************************************************************)
NumPhones == 2

PhonePool == <<"12345", "555-0100", "13800138000">>

Names == {"Alice", "Bob"}
Phones == {PhonePool[i] : i \in 1..NumPhones}
Aliases == {"", "work"}

\* What a caller may pass: "" stands for every falsy value (None, "").
NameInputs == Names \cup {""}
PhoneInputs == Phones \cup {""}

(***************************************************************************)
(* JSON values                                                             *)
(***************************************************************************)
Absent == <<"absent">>
Str(s) == <<"str", s>>
Obj(ph, al) == <<"obj", ph, al>>
IsStr(v) == v[1] = "str"
IsObj(v) == v[1] = "obj"

\* info.get(key, ""): the value under the key, "" when the object lacks it.
Get(info, i) == IF info[i] = Absent THEN Str("") ELSE info[i]

\* Contact(name, phone, alias), main.py:47-56
Contact(n, ph, al) == [name |-> n, phone |-> ph, alias |-> al]

(***************************************************************************)
(* The backing file                                                        *)
(***************************************************************************)
\* open("r") raises an OSError that _read does not catch, or the bytes are
\* not UTF-8 (UnicodeDecodeError, a ValueError but no JSONDecodeError).
UnreadableKinds == {"denied", "directory", "badbytes"}
\* JSON texts that parse to a falsy non-dict value: null, [], 0 / false / "".
FalsyKinds == {"null", "emptyarray", "zero"}
\* JSON texts that parse to a truthy non-dict value: [1], 5 / true / "abc".
TruthyKinds == {"array", "number"}

File(k, es) == [kind |-> k, entries |-> es]
ObjectFile(es) == File("object", es)
EmptyStore == ObjectFile(<<>>)

HasKey(es, n) == \E i \in 1..Len(es) : es[i][1] = n
IndexOf(es, n) == CHOOSE i \in 1..Len(es) : es[i][1] = n
Lookup(es, n) == es[IndexOf(es, n)][2]
Without(es, n) == SelectSeq(es, LAMBDA e : e[1] # n)

\* The value shapes an entry of a hand-made or older file may have.
LegacyValues == {Str(p) : p \in Phones}
CurrentValues == {Obj(Str(p), Str(a)) : p \in Phones, a \in Aliases}
                   \cup {Obj(Str(PhonePool[1]), Absent)}
ExternalValues == LegacyValues \cup CurrentValues

\* Every ordered list of entries with distinct names over the given values.
RECURSIVE EntryLists(_, _)
EntryLists(ns, vs) ==
  {<<>>} \cup UNION {
      {<<<<n, v>>>> \o rest : v \in vs, rest \in EntryLists(ns \ {n}, vs)}
    : n \in ns}

ExternalFiles ==
  {File(k, <<>>) : k \in {"missing", "corrupt"} \cup UnreadableKinds
                          \cup FalsyKinds \cup TruthyKinds}
    \cup {ObjectFile(es) : es \in EntryLists(Names, ExternalValues)}

IsLegacyFile(f) ==
  f.kind = "object" /\ f.entries # <<>>
    /\ \A i \in 1..Len(f.entries) : IsStr(f.entries[i][2])
IsCurrentFile(f) ==
  f.kind = "object" /\ \A i \in 1..Len(f.entries) : IsObj(f.entries[i][2])

(***************************************************************************)
(* Results of a call: a return value or a raised exception                 *)
(***************************************************************************)
Raise(e) == <<"raise", e>>
Raised(r) == r[1] = "raise"

ReadError(k) ==
  CASE k = "denied" -> "PermissionError"
    [] k = "directory" -> "IsADirectoryError"
    [] k = "badbytes" -> "UnicodeDecodeError"
    [] OTHER -> "AttributeError"

(***************************************************************************)
(* PhonebookRepository                                                     *)
(***************************************************************************)
ReadResult(e, d, k, es) == [exc |-> e, isdict |-> d, kind |-> k, entries |-> es]

\* The format test of _read: non-empty data whose first value is a string.
LooksLegacy(es) == es # <<>> /\ IsStr(es[1][2])

\* The conversion with the two fields of the new entry swapped.
ConvertLegacySwapped(es) == [i \in 1..Len(es) |-> <<es[i][1], Obj(Str(""), es[i][2])>>]

\* The conversion applied to the first entry only.
ConvertLegacyFirst(es) ==
  [i \in 1..Len(es) |-> IF i = 1 THEN <<es[i][1], Obj(es[i][2], Str(""))>> ELSE es[i]]

\* {name: {"phone": phone, "alias": ""} for name, phone in data.items()}
ConvertLegacy(es) == [i \in 1..Len(es) |-> <<es[i][1], Obj(es[i][2], Str(""))>>]

\* The exceptions _read catches: FileNotFoundError and json.JSONDecodeError.
ReadCaught(k) == k \in {"missing", "corrupt"}

_read(f) ==
  CASE ReadCaught(f.kind) -> ReadResult("none", TRUE, "object", <<>>)
    [] f.kind \in UnreadableKinds -> ReadResult(ReadError(f.kind), FALSE, f.kind, <<>>)
    \* `data and ...` is falsy: the non-dict value is returned as it is
    [] f.kind \in FalsyKinds -> ReadResult("none", FALSE, f.kind, <<>>)
    \* data.values() on a list, a number or a string
    [] f.kind \in TruthyKinds -> ReadResult("AttributeError", FALSE, f.kind, <<>>)
    [] OTHER ->
        IF LooksLegacy(f.entries)
        THEN ReadResult("none", TRUE, "object", ConvertLegacy(f.entries))
        ELSE ReadResult("none", TRUE, "object", f.entries)

\* How a write ends: "ok"; "openfail", open("w") raises and the file is left
\* alone; "dumpfail", open("w") has truncated the file and json.dump (or the
\* flush on close) raises, which leaves an empty or cut-off text.
WriteOutcomes == {"ok", "openfail", "dumpfail"}

WriteResult(f, e) == [file |-> f, exc |-> e]

_write(f, data, w) ==
  CASE w = "openfail" \/ f.kind = "directory" -> WriteResult(f, "OSError")
    [] w = "dumpfail" -> WriteResult(File("corrupt", <<>>), "OSError")
    [] OTHER -> WriteResult(ObjectFile(data), "none")

\* A repository call: the file it leaves, what it returns or raises, and
\* how many times it called _write.
Result(f, r, n) == [file |-> f, ret |-> r, writes |-> n]

_ensure_file(f, w) ==
  IF f.kind = "missing"
  THEN LET wr == _write(f, <<>>, w)
       IN Result(wr.file, IF wr.exc # "none" THEN Raise(wr.exc) ELSE <<"unit">>, 1)
  ELSE Result(f, <<"unit">>, 0)

ContactOf(e) == Contact(e[1], Get(e[2], 2), Get(e[2], 3))

list_contacts(f) ==
  LET r == _read(f) IN
  IF r.exc # "none" THEN Raise(r.exc)
  \* None / [] / 0 have no .items()
  ELSE IF ~r.isdict THEN Raise("AttributeError")
  \* a string value has no .get
  ELSE IF \E i \in 1..Len(r.entries) : IsStr(r.entries[i][2]) THEN Raise("AttributeError")
  ELSE <<"list", [i \in 1..Len(r.entries) |-> ContactOf(r.entries[i])]>>

\* add_contact without the `if contact.name in phonebook` test.
add_contact_overwrite(f, c, w) ==
  LET r == _read(f) IN
  IF r.exc # "none" THEN Result(f, Raise(r.exc), 0)
  ELSE IF ~r.isdict THEN Result(f, Raise("TypeError"), 0)
  ELSE LET wr == _write(f, Append(Without(r.entries, c.name), <<c.name, Obj(c.phone, c.alias)>>), w)
       IN Result(wr.file, IF wr.exc # "none" THEN Raise(wr.exc) ELSE <<"bool", TRUE>>, 1)

\* add_contact that catches the failure of _write and returns False.
add_contact_swallow(f, c, w) ==
  LET r == _read(f) IN
  IF r.exc # "none" THEN Result(f, Raise(r.exc), 0)
  ELSE IF ~r.isdict THEN Result(f, Raise("TypeError"), 0)
  ELSE IF HasKey(r.entries, c.name) THEN Result(f, <<"bool", FALSE>>, 0)
  ELSE LET wr == _write(f, Append(r.entries, <<c.name, Obj(c.phone, c.alias)>>), w)
       IN Result(wr.file, <<"bool", wr.exc = "none">>, 1)

\* add_contact that stores the phone and forgets the alias.
add_contact_noalias(f, c, w) ==
  LET r == _read(f) IN
  IF r.exc # "none" THEN Result(f, Raise(r.exc), 0)
  ELSE IF ~r.isdict THEN Result(f, Raise("TypeError"), 0)
  ELSE IF HasKey(r.entries, c.name) THEN Result(f, <<"bool", FALSE>>, 0)
  ELSE LET wr == _write(f, Append(r.entries, <<c.name, Obj(c.phone, Str(""))>>), w)
       IN Result(wr.file, IF wr.exc # "none" THEN Raise(wr.exc) ELSE <<"bool", TRUE>>, 1)

\* add_contact that puts the new entry before the stored ones.
add_contact_first(f, c, w) ==
  LET r == _read(f) IN
  IF r.exc # "none" THEN Result(f, Raise(r.exc), 0)
  ELSE IF ~r.isdict THEN Result(f, Raise("TypeError"), 0)
  ELSE IF HasKey(r.entries, c.name) THEN Result(f, <<"bool", FALSE>>, 0)
  ELSE LET wr == _write(f, <<<<c.name, Obj(c.phone, c.alias)>>>> \o r.entries, w)
       IN Result(wr.file, IF wr.exc # "none" THEN Raise(wr.exc) ELSE <<"bool", TRUE>>, 1)

add_contact(f, c, w) ==
  LET r == _read(f) IN
  IF r.exc # "none" THEN Result(f, Raise(r.exc), 0)
  \* `name in None`, `name in 0`, `[][name] = ...`
  ELSE IF ~r.isdict THEN Result(f, Raise("TypeError"), 0)
  ELSE IF HasKey(r.entries, c.name) THEN Result(f, <<"bool", FALSE>>, 0)
  ELSE LET wr == _write(f, Append(r.entries, <<c.name, Obj(c.phone, c.alias)>>), w)
       IN Result(wr.file, IF wr.exc # "none" THEN Raise(wr.exc) ELSE <<"bool", TRUE>>, 1)

\* delete_contact that reads the entry (get) where the code removes it (pop).
delete_contact_keep(f, name, w) ==
  LET r == _read(f) IN
  IF r.exc # "none" THEN Result(f, Raise(r.exc), 0)
  ELSE IF ~r.isdict
       THEN Result(f, Raise(IF r.kind = "emptyarray" THEN "TypeError" ELSE "AttributeError"), 0)
  ELSE IF ~HasKey(r.entries, name) THEN Result(f, <<"none">>, 0)
  ELSE LET info == Lookup(r.entries, name)
           wr == _write(f, r.entries, w)
       IN IF wr.exc # "none" THEN Result(wr.file, Raise(wr.exc), 1)
          ELSE IF IsStr(info) THEN Result(wr.file, Raise("AttributeError"), 1)
          ELSE Result(wr.file, <<"contact", ContactOf(<<name, info>>)>>, 1)

\* delete_contact that writes the mapping back before it tests `info is None`.
delete_contact_writefirst(f, name, w) ==
  LET r == _read(f) IN
  IF r.exc # "none" THEN Result(f, Raise(r.exc), 0)
  ELSE IF ~r.isdict
       THEN Result(f, Raise(IF r.kind = "emptyarray" THEN "TypeError" ELSE "AttributeError"), 0)
  ELSE LET wr == _write(f, Without(r.entries, name), w)
       IN IF wr.exc # "none" THEN Result(wr.file, Raise(wr.exc), 1)
          ELSE IF ~HasKey(r.entries, name) THEN Result(wr.file, <<"none">>, 1)
          ELSE IF IsStr(Lookup(r.entries, name)) THEN Result(wr.file, Raise("AttributeError"), 1)
          ELSE Result(wr.file, <<"contact", ContactOf(<<name, Lookup(r.entries, name)>>)>>, 1)

delete_contact(f, name, w) ==
  LET r == _read(f) IN
  IF r.exc # "none" THEN Result(f, Raise(r.exc), 0)
  \* None.pop, (0).pop: AttributeError; [].pop(name, None): TypeError
  ELSE IF ~r.isdict
       THEN Result(f, Raise(IF r.kind = "emptyarray" THEN "TypeError" ELSE "AttributeError"), 0)
  ELSE IF ~HasKey(r.entries, name) THEN Result(f, <<"none">>, 0)
  ELSE LET info == Lookup(r.entries, name)
           wr == _write(f, Without(r.entries, name), w)
       IN IF wr.exc # "none" THEN Result(wr.file, Raise(wr.exc), 1)
          \* info.get on a string value, after the write
          ELSE IF IsStr(info) THEN Result(wr.file, Raise("AttributeError"), 1)
          ELSE Result(wr.file, <<"contact", ContactOf(<<name, info>>)>>, 1)

(***************************************************************************)
(* MobileControlTool: the phonebook operations and their envelopes         *)
(***************************************************************************)
\* {"success": ..., "message": ..., "data": ...}; the message is the tuple
\* of the parts the f-string joins, its fixed text given in English.
Envelope(s, m, d) == [success |-> s, message |-> m, data |-> d]
NoData == <<"nodata">>
Data(cs) == <<"data", cs>>

\* A tool call: the repository result and the envelope returned.
ToolResult(r, e) == [file |-> r.file, ret |-> r.ret, writes |-> r.writes, env |-> e]

\* phonebook_list that saves the mapping it has loaded.
phonebook_list_saving(f) ==
  LET r == list_contacts(f)
      d == _read(f)
  IN ToolResult(Result(IF d.exc = "none" /\ d.isdict THEN ObjectFile(d.entries) ELSE f, r, 0),
       IF Raised(r) THEN Envelope(FALSE, <<"list failed", r[2]>>, Data(<<>>))
       ELSE IF r[2] = <<>> THEN Envelope(TRUE, <<"phonebook is empty">>, Data(<<>>))
       ELSE Envelope(TRUE, <<"found contacts", Len(r[2])>>, Data(r[2])))

phonebook_list(f) ==
  LET r == list_contacts(f) IN
  ToolResult(Result(f, r, 0),
    IF Raised(r) THEN Envelope(FALSE, <<"list failed", r[2]>>, Data(<<>>))
    ELSE IF r[2] = <<>> THEN Envelope(TRUE, <<"phonebook is empty">>, Data(<<>>))
    ELSE Envelope(TRUE, <<"found contacts", Len(r[2])>>, Data(r[2])))

\* The test of phonebook_add without its `or not phone`.
AddRejectedNameOnly(name, phone) == name = ""

\* `if not name or not phone: raise ValueError`
AddRejected(name, phone) == name = "" \/ phone = ""

phonebook_add(f, name, phone, alias, w) ==
  IF AddRejected(name, phone)
  THEN ToolResult(Result(f, <<"skipped">>, 0),
         Envelope(FALSE, <<"add failed", "name and phone must not be empty">>, NoData))
  ELSE LET r == add_contact(f, Contact(name, Str(phone), Str(alias)), w) IN
       ToolResult(r,
         IF Raised(r.ret) THEN Envelope(FALSE, <<"add failed", r.ret[2]>>, NoData)
         ELSE IF ~r.ret[2] THEN Envelope(FALSE, <<"add failed", "exists", name>>, NoData)
         ELSE Envelope(TRUE, <<"added", name, alias, phone>>, NoData))

\* phonebook_delete that reports success when there was nothing to delete.
phonebook_delete_silent(f, name, w) ==
  IF name = ""
  THEN ToolResult(Result(f, <<"skipped">>, 0),
         Envelope(FALSE, <<"delete failed", "name must not be empty">>, NoData))
  ELSE LET r == delete_contact(f, name, w) IN
       ToolResult(r,
         IF Raised(r.ret) THEN Envelope(FALSE, <<"delete failed", r.ret[2]>>, NoData)
         ELSE IF r.ret = <<"none">> THEN Envelope(TRUE, <<"deleted", name>>, NoData)
         ELSE Envelope(TRUE, <<"deleted", name, r.ret[2].alias, r.ret[2].phone>>, NoData))

phonebook_delete(f, name, w) ==
  IF name = ""
  THEN ToolResult(Result(f, <<"skipped">>, 0),
         Envelope(FALSE, <<"delete failed", "name must not be empty">>, NoData))
  ELSE LET r == delete_contact(f, name, w) IN
       ToolResult(r,
         IF Raised(r.ret) THEN Envelope(FALSE, <<"delete failed", r.ret[2]>>, NoData)
         ELSE IF r.ret = <<"none">> THEN Envelope(FALSE, <<"delete failed", "does not exist", name>>, NoData)
         ELSE Envelope(TRUE, <<"deleted", name, r.ret[2].alias, r.ret[2].phone>>, NoData))

(***************************************************************************)
(* SystemController: one external command per action (two for the Windows  *)
(* theme), run with subprocess.run(..., check=True)                        *)
(***************************************************************************)
\* platform.system().lower(); "other" stands for every value that is none
\* of the three the code knows.
Systems == {"darwin", "windows", "linux", "other"}
Supported == {"darwin", "windows", "linux"}

\* How subprocess.run(..., check=True) ends: the command exits with 0, it
\* exits with another status (CalledProcessError), or the program is not
\* there (FileNotFoundError).
CmdOutcomes == {"ok", "exit", "notfound"}

\* A SystemController call: what it returns or raises, the text returned
\* or the text of the exception, and the commands it ran, in order.
SysResult(r, text, cmds) == [ret |-> r, text |-> text, cmds |-> cmds]

Rejected(text) == SysResult(Raise("ValueError"), text, <<>>)
Unsupported(sys) == SysResult(Raise("ValueError"), <<"unsupported system", sys>>, <<>>)

\* subprocess.run(cmd, check=True); missing is the text of the
\* FileNotFoundError an enclosing `except FileNotFoundError` raises instead
\* (<<>> when the call has no such handler).
RunChecked(cmd, out, missing) ==
  CASE out = "exit" ->
         SysResult(Raise("CalledProcessError"), <<"non-zero exit status", cmd>>, <<cmd>>)
    [] out = "notfound" ->
         SysResult(Raise("FileNotFoundError"),
                   IF missing = <<>> THEN <<"no such file", cmd>> ELSE missing, <<cmd>>)
    [] OTHER -> SysResult(<<"done">>, <<>>, <<cmd>>)

\* The value the call returns once its command has run.
Returning(r, text) ==
  IF Raised(r.ret) THEN r ELSE SysResult(<<"str">>, text, r.cmds)

Opener(sys) ==
  CASE sys = "darwin" -> "open" [] sys = "windows" -> "start" [] OTHER -> "xdg-open"

\* `if not value: raise ValueError(error_message)`
_require_value(value) == value # ""

dial(sys, phone_number, outs) ==
  IF ~_require_value(phone_number) THEN Rejected(<<"phone number must not be empty">>)
  ELSE IF sys \in Supported
  THEN Returning(RunChecked(Opener(sys), outs[1], <<>>), <<"dialing", phone_number>>)
  ELSE Unsupported(sys)

\* Messages: the empty one, a short one, one of more than 50 characters.
LongMessage == "a message of more than fifty characters"
Messages == {"", "hello", LongMessage}

\* message[:50], followed by "..." when the message is longer.
Preview(message) ==
  IF message = LongMessage THEN <<"first 50 characters", "...">> ELSE <<message>>

send_sms(sys, phone_number, message, outs) ==
  IF ~_require_value(phone_number) THEN Rejected(<<"phone number must not be empty">>)
  ELSE IF ~_require_value(message) THEN Rejected(<<"message must not be empty">>)
  ELSE IF sys \in Supported
  THEN Returning(RunChecked(Opener(sys), outs[1], <<>>),
                 <<"sending sms", phone_number>> \o Preview(message))
  ELSE Unsupported(sys)

\* A level as a front end receives it: none, an integer, a number with a
\* fraction (counted in halves: 101 is 50.5), or a text.
NoLevel == <<"none">>
IntLevel(n) == <<"int", n>>
FloatLevel(halves) == <<"float", halves>>
TextLevel(t) == <<"text", t>>

LevelInts == {-1, 0, 50, 100, 101}
LevelHalves == {-1, 101, 201, 203}
Numerals == {<<"-1", -1>>, <<"0", 0>>, <<"50", 50>>, <<"100", 100>>, <<"101", 101>>}
Words == {"abc", "50.5"}

JsonLevels ==
  {NoLevel} \cup {IntLevel(n) : n \in LevelInts} \cup {FloatLevel(h) : h \in LevelHalves}
    \cup {TextLevel(n[1]) : n \in Numerals} \cup {TextLevel(w) : w \in Words}
\* A command-line argument is a text.
TextLevels == {NoLevel} \cup {TextLevel(n[1]) : n \in Numerals} \cup {TextLevel(w) : w \in Words}

\* int() of a float drops the fraction (rounds towards zero).
Truncate(halves) == IF halves >= 0 THEN halves \div 2 ELSE -((-halves) \div 2)

\* Python's int(level): an int as it is, a float without its fraction, a
\* text parsed as a decimal integer or ValueError.
PyInt(v) ==
  CASE v[1] = "int" -> v
    [] v[1] = "float" -> IntLevel(Truncate(v[2]))
    [] v[1] = "text" ->
         IF \E n \in Numerals : n[1] = v[2]
         THEN IntLevel((CHOOSE n \in Numerals : n[1] = v[2])[2])
         ELSE Raise("ValueError")
    [] OTHER -> Raise("TypeError")

\* `not isinstance(value, int) or not (0 <= value <= 100)` is false
_validate_percentage(value) == value[1] = "int" /\ 0 <= value[2] /\ value[2] <= 100

set_volume(sys, level, outs) ==
  IF ~_validate_percentage(level)
  THEN Rejected(<<"volume level must be an integer from 0 to 100">>)
  ELSE IF sys \in Supported
  THEN Returning(
         CASE sys = "darwin" -> RunChecked("osascript", outs[1], <<>>)
           [] sys = "windows" -> RunChecked("nircmd.exe", outs[1], <<"nircmd is required">>)
           [] OTHER -> RunChecked("amixer", outs[1], <<"alsa-utils is required">>),
         <<"volume set to", level[2]>>)
  ELSE Unsupported(sys)

\* `except subprocess.CalledProcessError: raise PermissionError(...)`
AsPermissionError(r) ==
  IF r.ret = Raise("CalledProcessError")
  THEN SysResult(Raise("PermissionError"), <<"administrator rights are required">>, r.cmds)
  ELSE r

set_brightness(sys, level, outs) ==
  IF ~_validate_percentage(level)
  THEN Rejected(<<"brightness level must be an integer from 0 to 100">>)
  ELSE IF sys \in Supported
  THEN Returning(
         CASE sys = "darwin" -> RunChecked("brightness", outs[1], <<"brightness is required">>)
           [] sys = "windows" -> AsPermissionError(RunChecked("powershell", outs[1], <<>>))
           [] OTHER -> RunChecked("brightnessctl", outs[1], <<"brightnessctl is required">>),
         <<"brightness set to", level[2]>>)
  ELSE Unsupported(sys)

ValidModes == {"light", "dark", "auto"}
Modes == ValidModes \cup {"", "blue"}

\* Windows: two `reg add` commands, AppsUseLightTheme and then
\* SystemUsesLightTheme, each with check=True.
RegAdd(outs) ==
  LET r1 == RunChecked("reg add AppsUseLightTheme", outs[1], <<>>) IN
  IF Raised(r1.ret) THEN r1
  ELSE LET r2 == RunChecked("reg add SystemUsesLightTheme", outs[2], <<>>)
       IN SysResult(r2.ret, r2.text, r1.cmds \o r2.cmds)

\* The two commands run without check=True between them: the second runs
\* whatever the first did.
RegAddUnchecked(outs) ==
  LET r1 == RunChecked("reg add AppsUseLightTheme", outs[1], <<>>)
      r2 == RunChecked("reg add SystemUsesLightTheme", outs[2], <<>>)
  IN SysResult(IF Raised(r1.ret) THEN r1.ret ELSE r2.ret,
               IF Raised(r1.ret) THEN r1.text ELSE r2.text, r1.cmds \o r2.cmds)

\* set_theme with the Windows commands unchecked.
set_theme_unchecked(sys, mode, outs) ==
  IF mode \notin ValidModes THEN Rejected(<<"invalid theme mode">>)
  ELSE IF sys \notin Supported THEN Unsupported(sys)
  ELSE IF mode = "auto"
  THEN SysResult(Raise("NotImplementedError"), <<"auto mode is not supported", sys>>, <<>>)
  ELSE Returning(
         CASE sys = "darwin" -> RunChecked("osascript", outs[1], <<>>)
           [] sys = "windows" -> RegAddUnchecked(outs)
           [] OTHER -> RunChecked("gsettings", outs[1], <<"gsettings is required">>),
         <<"theme set to", mode>>)

\* set_theme without the test of the mode.
set_theme_anymode(sys, mode, outs) ==
  IF sys \notin Supported THEN Unsupported(sys)
  ELSE IF mode = "auto"
  THEN SysResult(Raise("NotImplementedError"), <<"auto mode is not supported", sys>>, <<>>)
  ELSE Returning(
         CASE sys = "darwin" -> RunChecked("osascript", outs[1], <<>>)
           [] sys = "windows" -> RegAdd(outs)
           [] OTHER -> RunChecked("gsettings", outs[1], <<"gsettings is required">>),
         <<"theme set to", mode>>)

set_theme(sys, mode, outs) ==
  IF mode \notin ValidModes THEN Rejected(<<"invalid theme mode">>)
  ELSE IF sys \notin Supported THEN Unsupported(sys)
  ELSE IF mode = "auto"
  THEN SysResult(Raise("NotImplementedError"), <<"auto mode is not supported", sys>>, <<>>)
  ELSE Returning(
         CASE sys = "darwin" -> RunChecked("osascript", outs[1], <<>>)
           [] sys = "windows" -> RegAdd(outs)
           [] OTHER -> RunChecked("gsettings", outs[1], <<"gsettings is required">>),
         <<"theme set to", mode>>)

(***************************************************************************)
(* MobileControlTool: the system operations and their envelopes            *)
(***************************************************************************)
\* `except subprocess.CalledProcessError` gives "<action> failed: ...",
\* `except Exception` gives "<action> error: ...".
SysToolResult(r, what) ==
  [ret |-> r.ret, cmds |-> r.cmds,
   env |-> IF r.ret = Raise("CalledProcessError")
           THEN Envelope(FALSE, <<what \o " failed">> \o r.text, NoData)
           ELSE IF Raised(r.ret) THEN Envelope(FALSE, <<what \o " error">> \o r.text, NoData)
           ELSE Envelope(TRUE, r.text, NoData)]

\* "" stands for None as well: the call passes `phone_number or ""`.
make_call(sys, phone_number, outs) ==
  SysToolResult(dial(sys, phone_number, outs), "call")

tool_send_sms(sys, phone_number, message, outs) ==
  SysToolResult(send_sms(sys, phone_number, message, outs), "sms")

\* `if level is None: raise ValueError`, then set_volume(int(level))
control_volume(sys, level, outs) ==
  SysToolResult(
    IF level = NoLevel THEN Rejected(<<"volume level must be an integer from 0 to 100">>)
    ELSE LET n == PyInt(level) IN
         IF Raised(n) THEN SysResult(n, <<"int() cannot convert", level>>, <<>>)
         ELSE set_volume(sys, n, outs),
    "volume")

control_brightness(sys, level, outs) ==
  SysToolResult(
    IF level = NoLevel THEN Rejected(<<"brightness level must be an integer from 0 to 100">>)
    ELSE LET n == PyInt(level) IN
         IF Raised(n) THEN SysResult(n, <<"int() cannot convert", level>>, <<>>)
         ELSE set_brightness(sys, n, outs),
    "brightness")

control_theme(sys, mode, outs) ==
  SysToolResult(set_theme(sys, mode, outs), "theme")

(***************************************************************************)
(* State machine                                                           *)
(***************************************************************************)
\* last: the latest call (operation, arguments, how its write ended, the
\* file before it, outcome); prev: a summary of the call before it;
\* system: the platform of the tool's SystemController; reqs: the requests
\* the HTTP server is handling at the moment, when it handles several.
Call(op, n, p, a, w, before, t) ==
  [op |-> op, name |-> n, phone |-> p, alias |-> a, wout |-> w,
   before |-> before, ret |-> t.ret, writes |-> t.writes, env |-> t.env]

\* A file the store itself wrote, in this version (every value an object)
\* or in the older one (every value a phone string).
StoreFile(f) == IsCurrentFile(f) \/ IsLegacyFile(f)

\* A file whose content the store defines: one it wrote, or a missing or
\* unparseable one, which it loads as the empty mapping.
UsableFile(f) == StoreFile(f) \/ f.kind \in {"missing", "corrupt"}

\* What is kept of a call once another one has followed it: the arguments
\* and the outcome of an add or a delete that reached the repository, the
\* operation alone of any other call.
Summary(c) ==
  IF c.op \in {"add", "delete"} /\ c.ret # <<"skipped">>
  THEN [op |-> c.op, name |-> c.name, phone |-> c.phone, alias |-> c.alias,
        wout |-> c.wout, store |-> UsableFile(c.before),
        success |-> c.env.success, raised |-> Raised(c.ret), writes |-> c.writes]
  ELSE [op |-> "other", name |-> "", phone |-> "", alias |-> "",
        wout |-> "ok", store |-> FALSE,
        success |-> FALSE, raised |-> FALSE, writes |-> 0]

\* The platform the phonebook calls are observed on (they never look at it).
HostSystem == "linux"

NoEnvelope == Envelope(FALSE, <<"none">>, NoData)
NoResult(f) == [file |-> f, ret |-> <<"unit">>, writes |-> 0, env |-> NoEnvelope]
NoCall == Call("none", "", "", "", "ok", EmptyStore, NoResult(EmptyStore))

\* The file as the running tool finds it: written by this version or by an
\* older one, edited or damaged by others.  MobileControlTool() has run, so
\* the file exists (_ensure_file).
Init ==
  /\ file \in {f \in ExternalFiles : f.kind # "missing"}
  /\ last = NoCall
  /\ prev = Summary(NoCall)
  /\ system = HostSystem
  /\ reqs = <<>>

Step(call, f) ==
  /\ file' = f
  /\ last' = call
  /\ UNCHANGED <<system, reqs>>

\* A later MobileControlTool() (the command line builds one per run).
Construct ==
  \E w \in WriteOutcomes :
    LET r == _ensure_file(file, w) IN
    /\ (r.writes = 0 => w = "ok")
    /\ Step(Call("construct", "", "", "", w, file,
                 [file |-> r.file, ret |-> r.ret, writes |-> r.writes, env |-> NoEnvelope]),
            r.file)

List ==
  LET t == phonebook_list(file) IN
  Step(Call("list", "", "", "", "ok", file, t), t.file)

Add ==
  \E n \in NameInputs, p \in PhoneInputs, a \in Aliases, w \in WriteOutcomes :
    LET t == phonebook_add(file, n, p, a, w) IN
    \* the way the write ends is drawn only when there is a write
    /\ (t.writes = 0 => w = "ok")
    /\ Step(Call("add", n, p, a, w, file, t), t.file)

Delete ==
  \E n \in NameInputs, w \in WriteOutcomes :
    LET t == phonebook_delete(file, n, w) IN
    /\ (t.writes = 0 => w = "ok")
    /\ Step(Call("delete", n, "", "", w, file, t), t.file)

\* The file is deleted by something other than the store.
FileRemoved ==
  /\ file.kind # "missing"
  /\ Step(Call("removed", "", "", "", "ok", EmptyStore, NoResult(EmptyStore)),
          File("missing", <<>>))

\* Spec observes one call at a time: prev is not kept.
Next ==
  \/ Construct /\ UNCHANGED prev
  \/ List /\ UNCHANGED prev
  \/ Add /\ UNCHANGED prev
  \/ Delete /\ UNCHANGED prev
  \/ FileRemoved /\ UNCHANGED prev

Spec == Init /\ [][Next]_vars

\* SpecHist also keeps the summary of the call before the latest one.
NextHist ==
  \/ Construct /\ prev' = Summary(last)
  \/ List /\ prev' = Summary(last)
  \/ Add /\ prev' = Summary(last)
  \/ Delete /\ prev' = Summary(last)
  \/ FileRemoved /\ prev' = Summary(NoCall)

SpecHist == Init /\ [][NextHist]_vars

\* SpecFrame: the calls of Spec on a store that may also hold a contact
\* the calls never name, at any place among the others.
OtherName == "Carol"
FrameFiles ==
  {ObjectFile(es) : es \in EntryLists(Names \cup {OtherName}, CurrentValues)
                            \cup EntryLists(Names \cup {OtherName}, LegacyValues)}

InitFrame ==
  /\ file \in {f \in ExternalFiles : f.kind # "missing"} \cup FrameFiles
  /\ last = NoCall
  /\ prev = Summary(NoCall)
  /\ system = HostSystem
  /\ reqs = <<>>

SpecFrame == InitFrame /\ [][Next]_vars

\* SpecFresh: the calls of one tool on a store that starts empty and that
\* nothing else touches.
InitFresh ==
  /\ file = EmptyStore
  /\ last = NoCall
  /\ prev = Summary(NoCall)
  /\ system = HostSystem
  /\ reqs = <<>>

NextFresh ==
  \/ Construct /\ UNCHANGED prev
  \/ List /\ UNCHANGED prev
  \/ Add /\ UNCHANGED prev
  \/ Delete /\ UNCHANGED prev

SpecFresh == InitFresh /\ [][NextFresh]_vars

\* SpecSeq keeps, of the calls before the latest one, an add of a name the
\* store did not hold (the file being one the store defines) and the
\* delete of the same name that followed it, both with a write that went
\* through: the arguments, the envelopes, and the mapping the store held
\* before the add.
Chain(stage, c, start, d) ==
  [stage |-> stage, name |-> c.name, phone |-> c.phone, alias |-> c.alias,
   success |-> c.env.success, message |-> c.env.message, start |-> start,
   dsuccess |-> d.env.success, dmessage |-> d.env.message]

NoChain == Chain("other", NoCall, <<>>, NoCall)

ChainOf(c, p) ==
  IF /\ c.op = "add" /\ c.ret # <<"skipped">> /\ c.wout = "ok"
     /\ UsableFile(c.before) /\ ~HasKey(_read(c.before).entries, c.name)
  THEN Chain("add", c, _read(c.before).entries, NoCall)
  ELSE IF /\ c.op = "delete" /\ c.ret # <<"skipped">> /\ c.wout = "ok"
          /\ p.stage = "add" /\ c.name = p.name
  THEN [p EXCEPT !.stage = "add-delete",
                 !.dsuccess = c.env.success, !.dmessage = c.env.message]
  ELSE NoChain

InitSeq ==
  /\ file \in {f \in ExternalFiles : f.kind # "missing"}
  /\ last = NoCall
  /\ prev = NoChain
  /\ system = HostSystem
  /\ reqs = <<>>

NextSeq ==
  \/ Construct /\ prev' = ChainOf(last, prev)
  \/ List /\ prev' = ChainOf(last, prev)
  \/ Add /\ prev' = ChainOf(last, prev)
  \/ Delete /\ prev' = ChainOf(last, prev)
  \/ FileRemoved /\ prev' = NoChain

SpecSeq == InitSeq /\ [][NextSeq]_vars

(***************************************************************************)
(* The front ends: POST /api/mobile-control and GET /health of             *)
(* api_server.py, main() of the command line, _invoke of the plugin        *)
(***************************************************************************)
Actions ==
  {"phonebook_list", "phonebook_add", "phonebook_delete",
   "call", "sms", "volume", "brightness", "theme"}
UnknownActions == {"reboot"}
\* No action: the key is absent (None) or its value is empty.
NoAction == ""

\* The flat parameter set of a request; "" and NoLevel stand for a key
\* that is not given.
Params(action, name, phone, message, level, mode) ==
  [action |-> action, name |-> name, phone |-> phone, alias |-> "",
   message |-> message, level |-> level, mode |-> mode]

FrontNames == {"", "Bob"}

Requests(levels) ==
  {Params(a, "", "", "", NoLevel, "") : a \in {"phonebook_list", NoAction} \cup UnknownActions}
    \cup {Params("phonebook_add", n, p, "", NoLevel, "") : n \in FrontNames, p \in PhoneInputs}
    \cup {Params("phonebook_delete", n, "", "", NoLevel, "") : n \in FrontNames}
    \cup {Params("call", "", p, "", NoLevel, "") : p \in PhoneInputs}
    \cup {Params("sms", "", p, m, NoLevel, "") : p \in PhoneInputs, m \in Messages}
    \cup {Params(a, "", "", "", l, "") : a \in {"volume", "brightness"}, l \in levels}
    \cup {Params("theme", "", "", "", NoLevel, m) : m \in Modes}

\* What the if/elif chain of a front end did: the tool method it called
\* ("none" when it called none), the file left, the loads and writes of
\* the contact file and the commands run by that method, the envelope the
\* method returned, and the exception raised in the chain itself.
Outcome(op, f, reads, writes, cmds, env, exc) ==
  [op |-> op, file |-> f, reads |-> reads, writes |-> writes, cmds |-> cmds,
   env |-> env, exc |-> exc]
NoOutcome(f) == Outcome("none", f, 0, 0, <<>>, NoEnvelope, "none")

\* Every repository method starts with one self._read(); a tool method
\* that rejects its arguments does not reach the repository.
Reads(t) == IF t.ret = <<"skipped">> THEN 0 ELSE 1

FromStore(op, t) == Outcome(op, t.file, Reads(t), t.writes, <<>>, t.env, "none")
FromSystem(op, f, t) == Outcome(op, f, 0, 0, t.cmds, t.env, "none")

\* `int(level) if level is not None else None`, in the chain
CastLevel(level) == IF level = NoLevel THEN NoLevel ELSE PyInt(level)

Known(sys, f, q, w, outs) ==
  CASE q.action = "phonebook_list" -> FromStore("phonebook_list", phonebook_list(f))
    [] q.action = "phonebook_add" ->
         FromStore("phonebook_add", phonebook_add(f, q.name, q.phone, q.alias, w))
    [] q.action = "phonebook_delete" ->
         FromStore("phonebook_delete", phonebook_delete(f, q.name, w))
    [] q.action = "call" -> FromSystem("make_call", f, make_call(sys, q.phone, outs))
    [] q.action = "sms" ->
         FromSystem("send_sms", f, tool_send_sms(sys, q.phone, q.message, outs))
    [] q.action = "volume" ->
         LET n == CastLevel(q.level) IN
         IF Raised(n) THEN Outcome("none", f, 0, 0, <<>>, NoEnvelope, n[2])
         ELSE FromSystem("control_volume", f, control_volume(sys, n, outs))
    [] q.action = "brightness" ->
         LET n == CastLevel(q.level) IN
         IF Raised(n) THEN Outcome("none", f, 0, 0, <<>>, NoEnvelope, n[2])
         ELSE FromSystem("control_brightness", f, control_brightness(sys, n, outs))
    [] OTHER -> FromSystem("control_theme", f, control_theme(sys, q.mode, outs))

\* The chain with an `else` that lists the phonebook.
DispatchListing(sys, f, q, w, outs) ==
  IF q.action \in Actions THEN Known(sys, f, q, w, outs)
  ELSE FromStore("phonebook_list", phonebook_list(f))

\* The if/elif chain, the same in the three front ends.
Dispatch(sys, f, q, w, outs) ==
  IF q.action \in Actions THEN Known(sys, f, q, w, outs)
  ELSE Outcome("none", f, 0, 0, <<>>,
               Envelope(FALSE, <<"unknown action", q.action>>, NoData), "none")

\* What the caller gets: a JSON object (an envelope or another object)
\* with the HTTP status (0 outside HTTP), or the traceback of an exception
\* nothing caught.
Response(kind, status, body) == [kind |-> kind, status |-> status, body |-> body]
Failure(status, text) == Response("json", status, Envelope(FALSE, text, NoData))

\* A handled request: the outcome of the chain, the response, and the
\* writes of the contact file by a tool built for the request.
Handled(d, resp, cwrites) == [out |-> d, resp |-> resp, cwrites |-> cwrites]

mobile_control(sys, f, given, q, w, outs) ==
  IF ~given THEN Handled(NoOutcome(f), Failure(400, <<"request body must not be empty">>), 0)
  ELSE IF q.action = NoAction
  THEN Handled(NoOutcome(f), Failure(400, <<"missing action parameter">>), 0)
  ELSE LET d == Dispatch(sys, f, q, w, outs) IN
       IF d.exc # "none"
       THEN Handled(d, Failure(500, <<"internal server error", d.exc>>), 0)
       ELSE Handled(d, Response("json", 200, d.env), 0)

health_check ==
  Response("json", 200,
           [status |-> "healthy", service |-> "Mobile Control Tool API", version |-> "1.0.0"])

\* _invoke without its `except Exception`.
_invoke_uncaught(sys, f, q, w, outs) ==
  LET d == Dispatch(sys, f, q, w, outs) IN
  IF d.exc # "none" THEN Handled(d, Response("traceback", 0, [exception |-> d.exc]), 0)
  ELSE Handled(d, Response("json", 0, d.env), 0)

\* [ToolInvokeMessage.Text(json.dumps(result))]: what _invoke returns, a
\* list of one text message whose content is the JSON text of the result.
ToolInvokeMessages(resp) == <<[type |-> "text", content |-> resp.body]>>

_invoke(sys, f, q, w, outs) ==
  LET d == Dispatch(sys, f, q, w, outs) IN
  IF d.exc # "none" THEN Handled(d, Failure(0, <<"tool call failed", d.exc>>), 0)
  ELSE Handled(d, Response("json", 0, d.env), 0)

\* main(): MobileControlTool() is built for the run, before the chain and
\* outside its try.
main(sys, f, given, q, wc, w, outs) ==
  IF ~given
  THEN Handled(NoOutcome(f), Response("json", 0, [error |-> <<"missing arguments">>]), 0)
  ELSE IF q.action = NoAction
  THEN Handled(NoOutcome(f), Response("json", 0, [error |-> <<"missing action parameter">>]), 0)
  ELSE LET c == _ensure_file(f, wc) IN
       IF Raised(c.ret)
       THEN Handled(NoOutcome(c.file), Response("traceback", 1, [exception |-> c.ret[2]]),
                    c.writes)
       ELSE LET d == Dispatch(sys, c.file, q, w, outs) IN
            IF d.exc # "none"
            THEN Handled(d, Failure(0, <<"operation failed", d.exc>>), c.writes)
            ELSE Handled(d, Response("json", 0, d.env), c.writes)

\* SpecFront: requests through the three front ends, on a store that
\* starts empty.  last is the latest request: the front end, whether a
\* body or arguments were given at all, the parameters, the ways the write
\* of the tool's constructor, the write of the method and the commands
\* ended, and everything the handler did.
Request(front, given, q, wc, w, outs, before, h) ==
  [front |-> front, given |-> given, action |-> q.action, name |-> q.name,
   phone |-> q.phone, message |-> q.message, level |-> q.level, mode |-> q.mode,
   cwout |-> wc, wout |-> w, outs |-> outs, before |-> before,
   invoked |-> h.out.op, reads |-> h.out.reads, writes |-> h.out.writes,
   cmds |-> h.out.cmds, exc |-> h.out.exc, resp |-> h.resp, cwrites |-> h.cwrites]

NoParams == Params(NoAction, "", "", "", NoLevel, "")
NoRequest ==
  Request("none", FALSE, NoParams, "ok", "ok", <<"ok", "ok">>, EmptyStore,
          Handled(NoOutcome(EmptyStore), Response("none", 0, NoEnvelope), 0))

\* The ways the write and the commands of a request may end; what the
\* request does not use is "ok".
WritesFor(q) ==
  IF q.action \in {"phonebook_add", "phonebook_delete"} THEN WriteOutcomes ELSE {"ok"}
OutsFor(q) ==
  IF q.action = "theme" THEN CmdOutcomes \X CmdOutcomes
  ELSE IF q.action \in {"call", "sms", "volume", "brightness"} THEN CmdOutcomes \X {"ok"}
  ELSE {<<"ok", "ok">>}
Used(h, wc, w, outs) ==
  /\ h.cwrites = 0 => wc = "ok"
  /\ h.out.writes = 0 => w = "ok"
  /\ \A i \in 1..2 : i > Len(h.out.cmds) => outs[i] = "ok"

Handle(front, given, q, wc, w, outs, h) ==
  /\ Used(h, wc, w, outs)
  /\ file' = h.out.file
  /\ last' = Request(front, given, q, wc, w, outs, file, h)
  /\ UNCHANGED <<prev, system, reqs>>

InitFront ==
  /\ file = EmptyStore
  /\ last = NoRequest
  /\ prev = Summary(NoCall)
  /\ system \in Systems
  /\ reqs = <<>>

Http ==
  \E given \in BOOLEAN, q \in Requests(JsonLevels) :
    \E w \in WritesFor(q), outs \in OutsFor(q) :
      /\ given \/ q = NoParams
      /\ Handle("http", given, q, "ok", w, outs,
                mobile_control(system, file, given, q, w, outs))

Health ==
  /\ last' = Request("health", TRUE, NoParams, "ok", "ok", <<"ok", "ok">>, file,
                     Handled(NoOutcome(file), health_check, 0))
  /\ UNCHANGED <<file, prev, system, reqs>>

Plugin ==
  \E q \in Requests(JsonLevels) :
    \E w \in WritesFor(q), outs \in OutsFor(q) :
      Handle("plugin", TRUE, q, "ok", w, outs, _invoke(system, file, q, w, outs))

Cli ==
  \E given \in BOOLEAN, q \in Requests(TextLevels) :
    \E wc \in IF file.kind = "missing" THEN WriteOutcomes ELSE {"ok"},
       w \in WritesFor(q), outs \in OutsFor(q) :
      /\ given \/ q = NoParams
      /\ Handle("cli", given, q, wc, w, outs,
                main(system, file, given, q, wc, w, outs))

FrontFileRemoved ==
  /\ file.kind # "missing"
  /\ file' = File("missing", <<>>)
  /\ last' = NoRequest
  /\ UNCHANGED <<prev, system, reqs>>

NextFront ==
  \/ Http
  \/ Health
  \/ Plugin
  \/ Cli
  \/ FrontFileRemoved

SpecFront == InitFront /\ [][NextFront]_vars

\* SpecPlugin: calls of _invoke alone, on every kind of file the tool may
\* find: no JSON, JSON that is no object, an object of at most one entry.
PluginFiles == {f \in ExternalFiles : f.kind # "missing" /\ Len(f.entries) <= 1}

InitPlugin ==
  /\ file \in PluginFiles
  /\ last = NoRequest
  /\ prev = Summary(NoCall)
  /\ system \in Systems
  /\ reqs = <<>>

NextPlugin ==
  \/ Plugin
  \/ FrontFileRemoved

SpecPlugin == InitPlugin /\ [][NextPlugin]_vars

(***************************************************************************)
(* Two phonebook_add requests handled at the same time by the HTTP server  *)
(* (app.run serves each request in a thread of its own): add_contact is    *)
(* _read, the test of the name, and _write, which is open("w"), truncating *)
(* the file, and then json.dump and the close that puts the text there.    *)
(***************************************************************************)
RequestIds == {1, 2}

\* The store the server starts on: empty, or holding a third contact in
\* the current or in the legacy shape.
ServedFiles ==
  {EmptyStore,
   ObjectFile(<<<<"Carol", Obj(Str(PhonePool[1]), Str("work"))>>>>),
   ObjectFile(<<<<"Carol", Str(PhonePool[1])>>>>)}

\* The number of characters of the strings of the model.
StrLen(t) ==
  CASE t = "" -> 0
    [] t = "Bob" -> 3
    [] t = "work" -> 4
    [] t \in {"Alice", "Carol", "12345"} -> 5
    [] t = "555-0100" -> 8
    [] OTHER -> 11

\* The length of the text json.dump(data, indent=2) writes: "{}" for the
\* empty mapping, else the braces, 45 characters of keys, quotes and
\* indentation around the three strings of an entry, and the commas.
RECURSIVE EntriesLen(_)
EntriesLen(es) ==
  IF es = <<>> THEN 0
  ELSE 45 + StrLen(es[1][1]) + StrLen(es[1][2][2][2]) + StrLen(es[1][2][3][2])
         + EntriesLen(Tail(es))
TextLen(es) == IF es = <<>> THEN 2 ELSE 3 + EntriesLen(es) + (Len(es) - 1)

\* A request: where its thread is, its arguments, the file as it was when
\* phonebook_add was called, the mapping it is about to write, whether it
\* loaded before any request had opened the file for writing, whether it
\* has opened it, its place among the finished writes (0: none yet), and
\* its answer.
Thread(pc, n, p, a, before, data, early, opened, rank, success) ==
  [pc |-> pc, name |-> n, phone |-> p, alias |-> a, before |-> before, data |-> data,
   early |-> early, opened |-> opened, rank |-> rank, success |-> success]
Idle == Thread("idle", "", "", "", EmptyStore, <<>>, FALSE, FALSE, 0, FALSE)

InitConc ==
  /\ file \in ServedFiles
  /\ last = NoCall
  /\ prev = Summary(NoCall)
  /\ system = HostSystem
  /\ reqs = [i \in RequestIds |-> Idle]

Move(i, t) ==
  /\ reqs' = [reqs EXCEPT ![i] = t]
  /\ UNCHANGED <<last, prev, system>>

\* phonebook_add is called: it rejects empty arguments at once.
Arrive(i) ==
  /\ reqs[i].pc = "idle"
  /\ \E n \in NameInputs, p \in PhoneInputs, a \in Aliases :
       Move(i, IF AddRejected(n, p)
               THEN Thread("done", n, p, a, file, <<>>, FALSE, FALSE, 0, FALSE)
               ELSE Thread("load", n, p, a, file, <<>>, FALSE, FALSE, 0, FALSE))
  /\ UNCHANGED file

\* phonebook = self._read(); if contact.name in phonebook: return False
Load(i) ==
  /\ reqs[i].pc = "load"
  /\ LET r == _read(file)
         t == reqs[i]
     IN Move(i, IF r.exc # "none" \/ ~r.isdict \/ HasKey(r.entries, t.name)
                THEN [t EXCEPT !.pc = "done"]
                ELSE [t EXCEPT !.pc = "open",
                        !.data = Append(r.entries, <<t.name, Obj(Str(t.phone), Str(t.alias))>>),
                        !.early = \A j \in RequestIds : ~reqs[j].opened])
  /\ UNCHANGED file

\* open(self.file_path, "w"): the file is empty from here on.
OpenW(i) ==
  /\ reqs[i].pc = "open"
  /\ file' = File("corrupt", <<>>)
  /\ Move(i, [reqs[i] EXCEPT !.pc = "dump", !.opened = TRUE])

\* A write that keeps the entries the file holds under other names.
WrittenMerging(f, data) ==
  IF f.kind = "object"
  THEN ObjectFile(data \o SelectSeq(f.entries, LAMBDA e : ~HasKey(data, e[1])))
  ELSE ObjectFile(data)

\* The text is written from the start of the file, which holds it alone
\* unless a longer text was written by the other request since the open:
\* then the end of that text stays behind it, and the whole is no JSON.
Written(f, data) ==
  IF f.kind = "object" /\ TextLen(f.entries) > TextLen(data)
  THEN File("corrupt", <<>>)
  ELSE ObjectFile(data)

\* json.dump and the close; add_contact returns True.
Dump(i) ==
  /\ reqs[i].pc = "dump"
  /\ file' = Written(file, reqs[i].data)
  /\ Move(i, [reqs[i] EXCEPT !.pc = "done", !.success = TRUE,
                !.rank = 1 + Cardinality({j \in RequestIds : reqs[j].rank > 0})])

NextConc ==
  \/ \E i \in RequestIds : Arrive(i)
  \/ \E i \in RequestIds : Load(i)
  \/ \E i \in RequestIds : OpenW(i)
  \/ \E i \in RequestIds : Dump(i)

SpecConc == InitConc /\ [][NextConc]_vars

(***************************************************************************)
(* Properties                                                              *)
(***************************************************************************)
\* The name is a key of the mapping the store loads from the file.
Present(f, n) ==
  LET r == _read(f) IN r.exc = "none" /\ r.isdict /\ HasKey(r.entries, n)

\* The contact given to the latest phonebook_add.
GivenContact == Contact(last.name, Str(last.phone), Str(last.alias))

\* list() on the file returns a sequence that holds the contact.
Listed(f, c) ==
  LET r == list_contacts(f) IN
  r[1] = "list" /\ \E i \in 1..Len(r[2]) : r[2][i] = c

\* list() on the file returns a sequence with no contact of that name.
NotListed(f, n) ==
  LET r == list_contacts(f) IN
  r[1] = "list" /\ \A i \in 1..Len(r[2]) : r[2][i].name # n

\* C1: an add whose name is already a key of the store fails (add_contact
\* returns False, or phonebook_add rejects the call before it; the envelope
\* has success = false), whatever phone and alias are given, and the file,
\* hence what list() returns, is what it was before the call.
C1_DuplicateAddFails ==
  (last.op = "add" /\ Present(last.before, last.name)) =>
    /\ last.ret \in {<<"bool", FALSE>>, <<"skipped">>}
    /\ ~last.env.success
    /\ last.writes = 0
    /\ file = last.before
    /\ list_contacts(file) = list_contacts(last.before)

\* An add of a stored name with another phone than the stored one failed.
C1_Witness ==
  /\ last.op = "add" /\ Present(last.before, last.name)
  /\ last.phone # ""
  /\ last.ret = <<"bool", FALSE>>
  /\ Lookup(_read(last.before).entries, last.name)[2] # Str(last.phone)

\* C2 as stated: for every contact (non-empty name and phone) and every
\* store state, with no I/O failure, add(c) followed by list() returns a
\* sequence that contains c with exactly that name, phone and alias.
C2_AddThenListAlways ==
  (/\ last.op = "add" /\ ~AddRejected(last.name, last.phone)
   /\ StoreFile(last.before) /\ last.wout = "ok")
    => Listed(file, GivenContact)

\* C2 amended: when add(c) returns True, the list() that follows and returns
\* a sequence contains c with exactly that name, phone and alias; and it
\* does return a sequence when the file before the add was missing,
\* unparseable or a file the store wrote.
C2_AddThenList ==
  (last.op = "add" /\ last.ret = <<"bool", TRUE>>) =>
    /\ ~Raised(list_contacts(file)) => Listed(file, GivenContact)
    /\ UsableFile(last.before) => Listed(file, GivenContact)

\* A contact with an alias was added to a store that held another contact.
C2_Witness ==
  /\ last.op = "add" /\ last.ret = <<"bool", TRUE>>
  /\ last.alias # ""
  /\ StoreFile(last.before) /\ last.before.entries # <<>>
  /\ Listed(file, GivenContact)

\* The latest two calls are add(c) and delete(c.name), c a contact with a
\* name and a phone, on a file the store wrote (or a missing or unparseable
\* one), with no I/O failure.
AddThenDelete ==
  /\ prev.op = "add" /\ ~AddRejected(prev.name, prev.phone)
  /\ prev.store /\ prev.wout = "ok"
  /\ last.op = "delete" /\ last.name = prev.name /\ last.wout = "ok"

\* C3: add(c), then delete(c.name), then list(): delete returns the contact
\* that was stored under c.name (c itself when the add succeeded, the
\* contact list() showed under that name when the add found the name taken)
\* and list() returns a sequence with no contact named c.name.
C3_AddDeleteList ==
  AddThenDelete =>
    /\ last.ret[1] = "contact"
    /\ last.ret[2].name = prev.name
    /\ Listed(last.before, last.ret[2])
    /\ prev.success => last.ret[2] = Contact(prev.name, Str(prev.phone), Str(prev.alias))
    /\ last.env.success
    /\ NotListed(file, prev.name)

\* The add succeeded, the delete returned a contact with an alias and
\* another contact is still stored.
C3_Witness ==
  /\ AddThenDelete /\ prev.success
  /\ last.ret[1] = "contact" /\ last.ret[2].alias = Str("work")
  /\ file.kind = "object" /\ file.entries # <<>>

\* C4: delete(name) with a name that is no key of the store returns None
\* (phonebook_delete: success = false) and writes nothing: the file is what
\* it was, whether it held the current shape, the legacy shape, was missing
\* or unparseable.  (On any other file too the call writes nothing and the
\* envelope has success = false.)
C4_DeleteAbsent ==
  (last.op = "delete" /\ last.name # "" /\ ~Present(last.before, last.name)) =>
    /\ last.before.kind \in {"object", "missing", "corrupt"} => last.ret = <<"none">>
    /\ ~last.env.success
    /\ last.writes = 0
    /\ file = last.before

\* A delete of an absent name on a legacy file that holds another name.
C4_Witness ==
  /\ last.op = "delete" /\ last.name # ""
  /\ IsLegacyFile(last.before)
  /\ ~HasKey(last.before.entries, last.name)
  /\ last.ret = <<"none">>

\* The same on a missing file, which stays missing.
C4_WitnessMissing ==
  /\ last.op = "delete" /\ last.name # ""
  /\ last.before.kind = "missing" /\ file.kind = "missing"

\* C5: in every state reached from the empty store by calls of the tool,
\* every persisted contact has a non-empty name and a non-empty phone, and
\* no two persisted contacts share a name.
C5_StoreInvariant ==
  /\ file.kind \in {"object", "corrupt"}
  /\ \A i \in 1..Len(file.entries) :
       /\ file.entries[i][1] # ""
       /\ IsObj(file.entries[i][2])
       /\ IsStr(file.entries[i][2][2])
       /\ file.entries[i][2][2] # Str("")
  /\ \A i, j \in 1..Len(file.entries) :
       file.entries[i][1] = file.entries[j][1] => i = j

\* Two contacts are stored and the latest call was an add that was refused
\* for its empty phone.
C5_Witness ==
  /\ file.kind = "object" /\ Len(file.entries) = 2
  /\ last.op = "add" /\ last.name # "" /\ last.phone = ""
  /\ ~last.env.success

\* C6 as stated: when the file is missing or its content is no contact
\* mapping (empty or unparseable text, or JSON that is no object: an array,
\* null, a scalar), list() returns the empty sequence and phonebook_list
\* returns success = true with empty data.
C6_InvalidFileListsEmpty ==
  (/\ last.op = "list"
   /\ last.before.kind \in {"missing", "corrupt"} \cup FalsyKinds \cup TruthyKinds)
    =>
    /\ last.ret = <<"list", <<>>>>
    /\ last.env.success
    /\ last.env.data = Data(<<>>)

\* C7: list() on a file that maps every name to a phone string returns one
\* Contact per key, in the order of the file, with that string as phone and
\* the empty string as alias.
C7_LegacyUpgrade ==
  (last.op = "list" /\ IsLegacyFile(last.before)) =>
    /\ last.ret[1] = "list"
    /\ Len(last.ret[2]) = Len(last.before.entries)
    /\ \A i \in 1..Len(last.before.entries) :
         last.ret[2][i] = Contact(last.before.entries[i][1],
                                  last.before.entries[i][2], Str(""))
    /\ last.env.success
    /\ last.env.data = Data(last.ret[2])

\* A legacy file with two names was listed.
C7_Witness ==
  /\ last.op = "list" /\ IsLegacyFile(last.before)
  /\ Len(last.before.entries) = 2
  /\ last.ret[1] = "list" /\ Len(last.ret[2]) = 2

\* The entry is the new-shape form of the legacy entry.
Upgraded(new, old) == new = <<old[1], Obj(old[2], Str(""))>>

\* C8: on a legacy file, a call that does not write (list, an add that is
\* refused, a delete of an absent name) leaves the file as it was, in legacy
\* shape; an add or delete that succeeds rewrites it so that every entry
\* that remains is {phone, alias} with its phone and alias "", in the order
\* of the file, the added contact last.
C8_LegacyNormalisedOnWrite ==
  (last.op \in {"list", "add", "delete"} /\ IsLegacyFile(last.before)) =>
    LET old == last.before.entries
        rest == Without(old, last.name) IN
    /\ last.writes = 0 => /\ file = last.before
                          /\ last.op = "add" => ~last.env.success
                          /\ last.op = "delete" => ~last.env.success
    /\ last.op = "list" => last.writes = 0
    /\ (last.op = "add" /\ last.ret = <<"bool", TRUE>>) =>
         /\ file.kind = "object" /\ Len(file.entries) = Len(old) + 1
         /\ \A i \in 1..Len(old) : Upgraded(file.entries[i], old[i])
         /\ file.entries[Len(old) + 1] =
              <<last.name, Obj(Str(last.phone), Str(last.alias))>>
    /\ (last.op = "delete" /\ last.ret[1] = "contact") =>
         /\ file.kind = "object" /\ Len(file.entries) = Len(rest)
         /\ Len(rest) = Len(old) - 1
         /\ \A i \in 1..Len(rest) : Upgraded(file.entries[i], rest[i])

\* A delete on a legacy file with two names succeeded.
C8_Witness ==
  /\ last.op = "delete" /\ IsLegacyFile(last.before)
  /\ Len(last.before.entries) = 2
  /\ last.ret[1] = "contact"
  /\ IsCurrentFile(file) /\ Len(file.entries) = 1

\* An add of a second name to a legacy file succeeded.
C8_WitnessAdd ==
  /\ last.op = "add" /\ IsLegacyFile(last.before)
  /\ last.ret = <<"bool", TRUE>>
  /\ IsCurrentFile(file) /\ Len(file.entries) = 2

\* The write of the call failed.
WriteFailed(c) == c.op \in {"add", "delete"} /\ c.wout # "ok"

\* C9: when the write of an add or a delete fails, the repository call
\* raises that error (it returns neither True, False nor a contact), _write
\* was called once, the envelope has success = false, and the call after it
\* is answered with an envelope again.
C9_WriteFailurePropagates ==
  /\ WriteFailed(last) =>
       /\ last.ret = Raise("OSError")
       /\ last.writes = 1
       /\ ~last.env.success
       /\ last.env.message = <<last.op \o " failed", "OSError">>
  /\ (WriteFailed(prev) /\ last.op \in {"list", "add", "delete"}) =>
       /\ last.env # NoEnvelope
       /\ last.env.success \in BOOLEAN

\* A write failed and the list call after it was answered.
C9_Witness ==
  /\ WriteFailed(prev) /\ prev.raised /\ ~prev.success /\ prev.writes = 1
  /\ last.op = "list" /\ last.env.success

\* C10 as stated: when reading the file fails with an I/O error other than
\* "no such file" (permission denied, the path is a directory, undecodable
\* bytes), the store behaves as empty: list_contacts returns the empty
\* sequence, add_contact and delete_contact go on from an empty mapping.
C10_ReadFailureIsEmpty ==
  (last.before.kind \in UnreadableKinds) =>
    /\ last.op = "list" => last.ret = <<"list", <<>>>>
    /\ (last.op = "add" /\ ~AddRejected(last.name, last.phone)) =>
         last.ret \in {<<"bool", TRUE>>, Raise("OSError")}
    /\ (last.op = "delete" /\ last.name # "") => last.ret = <<"none">>

C20_ListNeverFailsOnObject ==
  (last.op = "list" /\ last.before.kind = "object") =>
    /\ last.ret[1] = "list"
    /\ Len(last.ret[2]) = Len(last.before.entries)
    /\ last.env.success

\* C19 as stated: a write replaces the stored mapping in one piece: after
\* an add or a delete that called _write on a file holding a JSON object,
\* whether or not the write went through, the file still holds a complete
\* JSON object, and when the write failed a load gives the mapping it gave
\* before the call; the file is never empty or cut off.
C19_AtomicOverwrite ==
  (last.op \in {"add", "delete"} /\ last.writes = 1 /\ last.before.kind = "object") =>
    /\ file.kind = "object"
    /\ last.wout # "ok" => _read(file) = _read(last.before)

\* C15: starting from a store without the name n (a file the store wrote,
\* or a missing or unparseable one), with writes that go through:
\* phonebook_add(n, p, a) succeeds and its message holds n and p; the
\* phonebook_delete(n) that follows succeeds and its message holds n and
\* the removed phone p; a second phonebook_delete(n) right after it fails,
\* its message says that n does not exist, it writes nothing, and the
\* store holds the mapping it held before the add.
C15_AddDeleteDelete ==
  /\ prev.stage \in {"add", "add-delete"} =>
       /\ prev.success
       /\ prev.message = <<"added", prev.name, prev.alias, prev.phone>>
  /\ (prev.stage = "add" /\ last.op = "delete" /\ last.name = prev.name
        /\ last.wout = "ok") =>
       /\ last.env.success
       /\ last.env.message = <<"deleted", prev.name, Str(prev.alias), Str(prev.phone)>>
  /\ prev.stage = "add-delete" =>
       /\ prev.dsuccess
       /\ prev.dmessage = <<"deleted", prev.name, Str(prev.alias), Str(prev.phone)>>
  /\ (prev.stage = "add-delete" /\ last.op = "delete" /\ last.name = prev.name) =>
       /\ ~last.env.success
       /\ last.env.message = <<"delete failed", "does not exist", prev.name>>
       /\ last.writes = 0
       /\ _read(file) = ReadResult("none", TRUE, "object", prev.start)

\* Bob was added to a store that held Alice in the legacy shape, deleted,
\* and deleted again.
C15_Witness ==
  /\ prev.stage = "add-delete"
  /\ prev.name = "Bob" /\ prev.phone = PhonePool[2]
  /\ prev.start = <<<<"Alice", Obj(Str(PhonePool[1]), Str(""))>>>>
  /\ last.op = "delete" /\ last.name = "Bob" /\ ~last.env.success
  /\ IsCurrentFile(file) /\ Len(file.entries) = 1

\* The latest request called a tool method with arguments it must reject.
InvalidArguments ==
  \/ last.invoked = "phonebook_add" /\ (last.name = "" \/ last.phone = "")
  \/ last.invoked = "phonebook_delete" /\ last.name = ""
  \/ last.invoked = "make_call" /\ last.phone = ""
  \/ last.invoked = "send_sms" /\ (last.phone = "" \/ last.message = "")
  \/ last.invoked = "control_theme" /\ last.mode \notin ValidModes

BadLevel(l) ==
  \/ l = NoLevel
  \/ l[1] = "float"
  \/ l[1] = "int" /\ (l[2] < 0 \/ l[2] > 100)
  \/ l[1] = "text" /\ l[2] \in Words
GoodLevel(l) == l[1] = "int" /\ 0 <= l[2] /\ l[2] <= 100

\* C12 as stated: a volume or brightness request with a level below 0,
\* above 100, missing, fractional (50.5) or a non-numeric text is answered
\* with success = false and no command is run; with an integer level from
\* 0 to 100 the validation passes (on a supported platform the command is
\* run).
C12_LevelValidation ==
  (last.action \in {"volume", "brightness"} /\ last.resp.kind = "json") =>
    /\ BadLevel(last.level) =>
         /\ last.resp.body.success = FALSE
         /\ last.cmds = <<>>
    /\ (GoodLevel(last.level) /\ system \in Supported) => Len(last.cmds) = 1

C14_UniformEnvelope ==
  last.front # "none" =>
    /\ last.resp.kind = "json"
    /\ {"success", "message"} \subseteq DOMAIN last.resp.body
    /\ last.resp.body.success \in BOOLEAN
    /\ last.resp.body.data = NoData \/ last.resp.body.data[1] = "data"

\* A command the latest request ran did not end well, or the platform is
\* none the method knows.
CommandFailed ==
  \E i \in 1..Len(last.cmds) : last.outs[i] # "ok"
PlatformUnsupported ==
  /\ last.invoked \in {"make_call", "send_sms", "control_volume",
                       "control_brightness", "control_theme"}
  /\ system \notin Supported

\* C17: when a command of make_call, send_sms, control_volume,
\* control_brightness or control_theme is not there or exits with a
\* non-zero status, or the platform is unsupported, the method returns an
\* envelope with success = false and a reason, nothing is raised into the
\* front end, and no command is run after the failed one: it is the last
\* command of the request and no command is run twice; on an unsupported
\* platform no command is run at all.
C17_CommandFailure ==
  /\ (CommandFailed \/ PlatformUnsupported) =>
       /\ last.resp.kind = "json"
       /\ last.resp.body.success = FALSE
       /\ Len(last.resp.body.message) >= 2
       /\ last.exc = "none"
  /\ \A i \in 1..Len(last.cmds) : last.outs[i] # "ok" => i = Len(last.cmds)
  /\ \A i, j \in 1..Len(last.cmds) : last.cmds[i] = last.cmds[j] => i = j
  /\ PlatformUnsupported => last.cmds = <<>>

\* On Windows the first `reg add` of a theme request exited with a
\* non-zero status.
C17_Witness ==
  /\ system = "windows" /\ last.invoked = "control_theme" /\ last.mode = "dark"
  /\ last.outs[1] = "exit" /\ Len(last.cmds) = 1
  /\ last.resp.body.success = FALSE

\* Both requests are answered, they added different names, and each had
\* loaded the file before either opened it for writing.
BothLoadedFirst ==
  /\ \A i \in RequestIds : reqs[i].pc = "done" /\ reqs[i].early
  /\ reqs[1].name # reqs[2].name

\* The request whose write finished last, and the other one.
Later == CHOOSE i \in RequestIds : reqs[i].rank = 2
Earlier == CHOOSE i \in RequestIds : reqs[i].rank = 1
ContactOfRequest(i) == Contact(reqs[i].name, Str(reqs[i].phone), Str(reqs[i].alias))

TornWrite == TextLen(reqs[Later].data) < TextLen(reqs[Earlier].data)

LastParams ==
  [action |-> last.action, name |-> last.name, phone |-> last.phone, alias |-> "",
   message |-> last.message, level |-> last.level, mode |-> last.mode]

\* C21: _invoke never raises: for every parameter mapping (known, unknown
\* or missing action, a level that is no number) and however the store
\* and the commands behave, it returns a list of exactly one text message
\* whose content is an envelope with a boolean success and a message: the
\* envelope of the method the action was dispatched to, the "unknown
\* action" envelope when there is none, the "tool call failed" envelope
\* when int() refused the level.
C21_InvokeNeverRaises ==
  last.front = "plugin" =>
    /\ last.resp.kind = "json"
    /\ LET msgs == ToolInvokeMessages(last.resp)
           d == Dispatch(system, last.before, LastParams, last.wout, last.outs)
       IN /\ Len(msgs) = 1
          /\ msgs[1].type = "text"
          /\ DOMAIN msgs[1].content = {"success", "message", "data"}
          /\ msgs[1].content.success \in BOOLEAN
          /\ Len(msgs[1].content.message) >= 1
          /\ last.invoked # "none" => msgs[1].content = d.env
          /\ (last.invoked = "none" /\ last.exc = "none") =>
               msgs[1].content = Envelope(FALSE, <<"unknown action", last.action>>, NoData)
          /\ last.exc # "none" =>
               msgs[1].content = Envelope(FALSE, <<"tool call failed", last.exc>>, NoData)

\* _invoke was given a volume level that is no number and answered with
\* the "tool call failed" envelope.
C21_Witness ==
  /\ last.front = "plugin" /\ last.action = "volume" /\ last.level = TextLevel("abc")
  /\ last.resp.kind = "json" /\ last.resp.body.success = FALSE
  /\ last.exc = "ValueError"

\* _invoke listed a file that holds JSON null: the store raised, the
\* method caught it.
C21_WitnessStore ==
  /\ last.front = "plugin" /\ last.action = "phonebook_list"
  /\ last.before.kind = "null" /\ last.resp.body.success = FALSE

\* The names of the mapping the store loads from the file, in order.
StoredNames(f) == LET es == _read(f).entries IN [i \in 1..Len(es) |-> es[i][1]]

\* The sequence without its contacts of that name.
WithoutContact(cs, n) == SelectSeq(cs, LAMBDA c : c.name # n)

\* C22: the frame of a successful write.  When add(c) returns True, list()
\* after it is list() before it with c appended last: every other name has
\* the phone and the alias it had, at the place it had.  When delete(n)
\* returns the contact, list() after it is list() before it without the
\* entry n: every other name has the phone and the alias it had, in the
\* order they had.  (Stated for the files list() can show; on every file
\* the stored names are the ones before plus c.name last, or minus n.)
C22_WriteFrame ==
  /\ (last.op = "add" /\ last.ret = <<"bool", TRUE>>) =>
       /\ StoredNames(file) = Append(StoredNames(last.before), last.name)
       /\ LET b == list_contacts(last.before) IN
          b[1] = "list" => list_contacts(file) = <<"list", Append(b[2], GivenContact)>>
  /\ (last.op = "delete" /\ last.ret[1] = "contact") =>
       /\ StoredNames(file) = SelectSeq(StoredNames(last.before), LAMBDA n : n # last.name)
       /\ Len(StoredNames(file)) = Len(StoredNames(last.before)) - 1
       /\ LET b == list_contacts(last.before) IN
          b[1] = "list" => list_contacts(file) = <<"list", WithoutContact(b[2], last.name)>>

\* A contact was added to a store that held two others, one with an alias:
\* it is listed last, after them.
C22_Witness ==
  /\ last.op = "add" /\ last.ret = <<"bool", TRUE>>
  /\ IsCurrentFile(last.before) /\ Len(last.before.entries) = 2
  /\ last.before.entries[1][2][3] = Str("work")
  /\ Len(file.entries) = 3 /\ file.entries[3][1] = last.name

\* The middle one of three legacy contacts was deleted: the two others
\* are listed in the order they had.
C22_WitnessDelete ==
  /\ last.op = "delete" /\ last.ret[1] = "contact"
  /\ IsLegacyFile(last.before) /\ Len(last.before.entries) = 3
  /\ last.before.entries[2][1] = last.name
  /\ Len(file.entries) = 2
  /\ file.entries[1][1] = last.before.entries[1][1]
  /\ file.entries[2][1] = last.before.entries[3][1]

\* The request was answered with success, its write is the latest one and
\* no other request is between its open and its dump.
JustAdded(i) ==
  /\ reqs[i].pc = "done" /\ reqs[i].success
  /\ \A j \in RequestIds : reqs[j].rank <= reqs[i].rank /\ reqs[j].pc # "dump"

\* The contacts list() showed on the file when the request was made.
ListedBefore(i) ==
  LET b == list_contacts(reqs[i].before) IN IF b[1] = "list" THEN b[2] ELSE <<>>

\* C23 as stated: an add never discards what the file held.  When a
\* phonebook_add has just returned success, every contact that list()
\* showed on the file when it was called is listed: also when the file it
\* loaded was one another request had opened for writing and not yet
\* written, which loads as the empty mapping.
C23_AddKeepsContent ==
  \A i \in RequestIds :
    JustAdded(i) =>
      \A k \in 1..Len(ListedBefore(i)) : Listed(file, ListedBefore(i)[k])

====
